---- MODULE Spec2Model ----
(***************************************************************************)
(* A model of the ext2-like metadata core of rustfs: the block device over *)
(* an in-memory image (src/src/fs/ext2.rs, impl BlockDev for Ext2Fs), the  *)
(* first-match bitmap allocator (first_match, ialloc, balloc), the inode   *)
(* constructor (src/src/fs/inode.rs, Inode::new_dir) and the formatter     *)
(* (Ext2Fs::format), taken statement by statement.                         *)
(*                                                                         *)
(* The image is a byte array.  It is held sparsely: a function from the    *)
(* byte offsets whose byte is not zero to that byte, with image_len the    *)
(* length of the array.  A block buffer ([u8; BLOCK_SZ]) is held the same  *)
(* way over the offsets 0 .. BLOCK_SZ-1.  A 64-bit word is never held as   *)
(* one integer: it is the eight bytes of the buffer it is transmuted from, *)
(* read in the byte order of the target.                                   *)
(***************************************************************************)
EXTENDS Integers, Sequences, FiniteSets, TLC

VARIABLES
    image,            \* Ext2Fs.image, sparse: offset |-> non-zero byte
    image_len,        \* Ext2Fs.image.len()
    overflow_checks,  \* build: arithmetic overflow panics (debug) or wraps (release)
    big_endian,       \* build: byte order of the target
    pc,               \* position of the running format() call
    super_blk,        \* format: let super_blk
    time,             \* format: let time
    ino,              \* format: let ino
    bid,              \* format: let bid
    ret,              \* the last allocator call outside format and what it returned
    pre_image,        \* history: the image when the last operation was called
    made,             \* the last two calls of Inode::new_dir and their records
    hist              \* history: the allocator calls made outside format since the
                      \* image was handed over or its format began, in order

vars == <<image, image_len, overflow_checks, big_endian, pc, super_blk, time,
          ino, bid, ret, pre_image, made, hist>>

----
\* Layout constants, src/src/fs/ext2.rs:13-24

BLOCK_SZ == 1024
MAX_FILE_COUNT == 1024
SUPER_BLOCK == 0
SUPER_BLOCK_NUM == 1
FREE_BITMAP_BLOCK == SUPER_BLOCK + SUPER_BLOCK_NUM
FREE_BITMAP_BLOCK_SZ == 1
INODE_BITMAP_BLOCK == FREE_BITMAP_BLOCK + FREE_BITMAP_BLOCK_SZ
INODE_BITMAP_BLOCK_NUM == 1
INODE_TABLE_BLOCKS == INODE_BITMAP_BLOCK + INODE_BITMAP_BLOCK_NUM
INODE_TABLE_BLOCKS_SZ == 60
DATA_BLOCKS == INODE_TABLE_BLOCKS + INODE_TABLE_BLOCKS_SZ
META_BLOCKS_SZ == DATA_BLOCKS

\* 0xEF53, the literal of s_magic in format
EXT2_MAGIC == 61267

\* src/src/fs/inode.rs:1-7
N_DIR_BLOCKS == 10
INDIR_BLOCK == N_DIR_BLOCKS
N_BLOCKS == INDIR_BLOCK + 1
\* 0x4000
IFDIR == 16384

\* Widths of the integer types
U16 == 65536
WORD_BYTES == 8
WORD_BITS == 64
WORDS_PER_BLOCK == BLOCK_SZ \div WORD_BYTES

----
\* Bounds of the model

\* the initial bitmaps start with 0 .. MaxPrefix bytes of 0xFF
MaxPrefix == 9
\* the wall clock read by format is 0 or BigTime seconds
BigTime == 1700000000
\* Inode::new_dir is called with times, flags and block ids 0 .. MaxArg
MaxArg == 2
\* at most MaxCalls allocator calls are made outside format in a row
MaxCalls == 2

----
\* Sparse byte arrays

Min(S) == CHOOSE x \in S : \A y \in S : x <= y

ByteAt(a, off) == IF off \in DOMAIN a THEN a[off] ELSE 0

\* the array a, held by its non-zero bytes
Sparse(a) == [off \in {o \in DOMAIN a : a[o] # 0} |-> a[off]]

ZeroBuf == Sparse([o \in {} |-> 0])

\* one_block_from!(bid), the byte range of a block
one_block_from(b) == (b * BLOCK_SZ) .. ((b + 1) * BLOCK_SZ - 1)

\* slicing self.image[one_block_from!(bid)] panics when the range ends
\* past the end of the image
InRange(len, b) == (b + 1) * BLOCK_SZ <= len

\* BlockDev::bread: buf.copy_from_slice(&self.image[one_block_from!(bid)])
bread(img, b) ==
    [off \in {o \in 0 .. BLOCK_SZ - 1 : (b * BLOCK_SZ + o) \in DOMAIN img}
        |-> img[b * BLOCK_SZ + off]]

\* BlockDev::bwrite: self.image[one_block_from!(bid)].copy_from_slice(buf)
bwrite(img, buf, b) ==
    [off \in ((DOMAIN img) \ one_block_from(b))
               \cup {b * BLOCK_SZ + o : o \in DOMAIN buf}
        |-> IF off \in one_block_from(b) THEN buf[off - b * BLOCK_SZ] ELSE img[off]]

----
\* Integers as bytes in memory (transmute of a struct or of a buffer)

RECURSIVE Digit(_, _)
\* the byte of weight 256^s of v
Digit(v, s) == IF s = 0 THEN v % 256 ELSE Digit(v \div 256, s - 1)

\* byte j (in memory order) of an integer of `size` bytes
MemByte(v, size, j, be) == Digit(v, IF be THEN size - 1 - j ELSE j)

\* the u16 held at offset off of a
ReadU16(a, off, be) ==
    IF be THEN ByteAt(a, off) * 256 + ByteAt(a, off + 1)
          ELSE ByteAt(a, off + 1) * 256 + ByteAt(a, off)

----
\* 64-bit words of a block buffer: let block_ref: &mut [u64; BLOCK_SZ / 8] =
\* transmute(&mut buf).  Word k is the bytes 8k .. 8k+7 of the buffer; its byte
\* of significance j (0 = most significant) is at 8k+j on a big-endian target
\* and at 8k+7-j on a little-endian one.  (The transmute takes the buffer's
\* address as that of u64 words; the model reads the words the targets in use
\* read there, whatever the address.)

SigOff(k, j, be) == k * WORD_BYTES + (IF be THEN j ELSE WORD_BYTES - 1 - j)

SigByte(buf, k, j, be) == ByteAt(buf, SigOff(k, j, be))

\* the scan looking for a word that is not zero
NotZero(buf, k) == \E i \in 0 .. WORD_BYTES - 1 : ByteAt(buf, k * WORD_BYTES + i) # 0

\* x != u64::MAX
NotMax(buf, k) == \E i \in 0 .. WORD_BYTES - 1 : ByteAt(buf, k * WORD_BYTES + i) # 255

\* u8::leading_ones
LeadingOnes8(b) ==
    CHOOSE n \in 0 .. 8 :
        /\ b >= 256 - 2 ^ (8 - n)
        /\ \A m \in (n + 1) .. 8 : b < 256 - 2 ^ (8 - m)

\* u64::leading_ones of word k
leading_ones(buf, k, be) ==
    LET full == {j \in 0 .. WORD_BYTES - 1 :
                    \A i \in 0 .. j : SigByte(buf, k, i, be) = 255}
        n == Cardinality(full)
    IN  IF n = WORD_BYTES THEN WORD_BITS
        ELSE n * 8 + LeadingOnes8(SigByte(buf, k, n, be))

\* bit p (0 = most significant) of byte b
BitOf(b, p) == (b \div 2 ^ (7 - p)) % 2

\* word_set_at!(word, index): word |= 1u64 << (63 - index), on word k
word_set_at(buf, k, index, be) ==
    LET off == SigOff(k, index \div 8, be)
        old == ByteAt(buf, off)
        new == IF BitOf(old, index % 8) = 1 THEN old ELSE old + 2 ^ (7 - (index % 8))
    IN  [o \in (DOMAIN buf) \cup {off} |-> IF o = off THEN new ELSE buf[o]]

----
\* What a call returns: Some(val), None, or a panic that unwinds it

Some(v) == [kind |-> "Some", val |-> v]
None == [kind |-> "None", val |-> 0]
Panic == [kind |-> "panic", val |-> 0]

\* first_match with the scan running one word past the block
first_match_past_end(img, len, bitmap_bid, be) ==
    IF ~InRange(len, bitmap_bid) THEN Panic
    ELSE
        LET buf == bread(img, bitmap_bid)
            cand == {k \in 0 .. WORDS_PER_BLOCK : NotMax(buf, k)}
        IN  IF cand = {} THEN None
            ELSE
                LET word_idx == Min(cand)
                    set == word_set_at(buf, word_idx,
                                       leading_ones(buf, word_idx, be), be)
                IN  Some(word_idx * WORD_BITS + leading_ones(set, word_idx, be))

\* Ext2Fs::first_match, the value returned.  The bit is set in the word first
\* and leading_ones() is then taken of the word as modified.
first_match(img, len, bitmap_bid, be) ==
    IF ~InRange(len, bitmap_bid) THEN Panic
    ELSE
        LET buf == bread(img, bitmap_bid)
            cand == {k \in 0 .. WORDS_PER_BLOCK - 1 : NotMax(buf, k)}
        IN  IF cand = {} THEN None
            ELSE
                LET word_idx == Min(cand)
                    set == word_set_at(buf, word_idx,
                                       leading_ones(buf, word_idx, be), be)
                IN  Some(word_idx * WORD_BITS + leading_ones(set, word_idx, be))

\* first_match writing the buffer with the bit set back, to the block of the
\* word's index instead of the bitmap block
first_match_image_wrong_block(img, len, bitmap_bid, be) ==
    LET buf  == bread(img, bitmap_bid)
        cand == {k \in 0 .. WORDS_PER_BLOCK - 1 : NotMax(buf, k)}
    IN  IF ~InRange(len, bitmap_bid) \/ cand = {} THEN img
        ELSE bwrite(img,
                    word_set_at(buf, Min(cand), leading_ones(buf, Min(cand), be), be),
                    Min(cand))

\* Ext2Fs::first_match, the image it leaves.  buf is a copy of the block on
\* the stack of the call, the bit is set in that copy, and no bwrite follows.
first_match_image(img, len, bitmap_bid, be) == img

\* `i as u16`
AsU16(r) == IF r.kind = "Some" THEN Some(r.val % U16) ELSE r

\* Ext2Fs::ialloc
ialloc(img, len, be) == AsU16(first_match(img, len, INODE_BITMAP_BLOCK, be))

\* Ext2Fs::balloc
balloc(img, len, be) == AsU16(first_match(img, len, FREE_BITMAP_BLOCK, be))

----
\* struct SuperBlk, and its bytes in memory.  All eight fields are u16, so the
\* record is 16 bytes without padding, the fields in the order declared.

SuperFields ==
    <<"s_inodes_count", "s_blocks_count", "s_free_blocks_count",
      "s_free_inodes_count", "s_first_data_block", "s_block_size",
      "s_last_allocate", "s_magic">>

\* size_of::<SuperBlk>()
SIZE_OF_SUPERBLK == 2 * Len(SuperFields)

NoSuperBlk == [f \in {SuperFields[i] : i \in 1 .. Len(SuperFields)} |-> 0]

\* offset of a field of SuperBlk in the record
SuperOff(name) == 2 * ((CHOOSE i \in 1 .. Len(SuperFields) : SuperFields[i] = name) - 1)

\* transmute::<&SuperBlk, &[u8; size_of::<SuperBlk>()]>, byte o
SuperByte(sb, o, be) == MemByte(sb[SuperFields[(o \div 2) + 1]], 2, o % 2, be)

\* format: super_block = [0; BLOCK_SZ] with the record copied to
\* SUPER_BLOCK .. SUPER_BLOCK + size_of::<SuperBlk>()
super_block(sb, be) ==
    Sparse([o \in 0 .. BLOCK_SZ - 1 |->
               IF o \in SUPER_BLOCK .. (SUPER_BLOCK + SIZE_OF_SUPERBLK - 1)
               THEN SuperByte(sb, o - SUPER_BLOCK, be) ELSE 0])

----
\* struct Inode (src/src/fs/inode.rs) and its bytes in memory.  The struct has
\* the default representation, for which rustc places the fields by decreasing
\* alignment: the four u64, the u32, then the u16 fields and the u16 array in
\* the order declared, 64 bytes without padding (the comment of line 33).

SIZE_OF_INODE == 64

OFF_SIZE == 0
OFF_ATIME == 8
OFF_CTIME == 16
OFF_MTIME == 24
OFF_FLAGS == 32
OFF_MODE == 36
OFF_LINKS == 38
OFF_BLOCKS == 40
OFF_BLOCK == 42

\* new_dir with the block id stored in the indirect slot as well
new_dir_indirect_set(t, flags, first_block) ==
    [i_mode        |-> IFDIR,
     i_size        |-> 0,
     i_atime       |-> t,
     i_ctime       |-> t,
     i_mtime       |-> t,
     i_links_count |-> 1,
     i_blocks      |-> 1,
     i_flags       |-> flags,
     i_block       |-> [k \in 0 .. N_BLOCKS - 1 |->
                           IF k \in {0, INDIR_BLOCK} THEN first_block ELSE 0]]

\* Inode::new_dir
new_dir(t, flags, first_block) ==
    [i_mode        |-> IFDIR,
     i_size        |-> 0,
     i_atime       |-> t,
     i_ctime       |-> t,
     i_mtime       |-> t,
     i_links_count |-> 1,
     i_blocks      |-> 1,
     i_flags       |-> flags,
     i_block       |-> [k \in 0 .. N_BLOCKS - 1 |-> IF k = 0 THEN first_block ELSE 0]]

\* transmute::<&Inode, &[u8; size_of::<Inode>()]>, byte o
InodeByte(inode, o, be) ==
    IF o < OFF_ATIME THEN MemByte(inode.i_size, 8, o - OFF_SIZE, be)
    ELSE IF o < OFF_CTIME THEN MemByte(inode.i_atime, 8, o - OFF_ATIME, be)
    ELSE IF o < OFF_MTIME THEN MemByte(inode.i_ctime, 8, o - OFF_CTIME, be)
    ELSE IF o < OFF_FLAGS THEN MemByte(inode.i_mtime, 8, o - OFF_MTIME, be)
    ELSE IF o < OFF_MODE THEN MemByte(inode.i_flags, 4, o - OFF_FLAGS, be)
    ELSE IF o < OFF_LINKS THEN MemByte(inode.i_mode, 2, o - OFF_MODE, be)
    ELSE IF o < OFF_BLOCKS THEN MemByte(inode.i_links_count, 2, o - OFF_LINKS, be)
    ELSE IF o < OFF_BLOCK THEN MemByte(inode.i_blocks, 2, o - OFF_BLOCKS, be)
    ELSE MemByte(inode.i_block[(o - OFF_BLOCK) \div 2], 2, (o - OFF_BLOCK) % 2, be)

\* format: inode_block = [0u8; BLOCK_SZ] with the record copied to
\* ino * size_of::<Inode>() .. (ino + 1) * size_of::<Inode>()
inode_block(inode, n, be) ==
    Sparse([o \in 0 .. BLOCK_SZ - 1 |->
               IF o \in (n * SIZE_OF_INODE) .. ((n + 1) * SIZE_OF_INODE - 1)
               THEN InodeByte(inode, o - n * SIZE_OF_INODE, be) ELSE 0])

----
\* Initial states: Ext2Fs::new(image) on a raw image.  The image is a whole
\* number of blocks; its first three blocks hold zeroes, 0xFF bytes, or a
\* bitmap pattern: `k` bytes 0xFF, the byte v, then the byte f to the end.

SizesInBlocks ==
    {0, 1, 2, 3, META_BLOCKS_SZ, META_BLOCKS_SZ + 1, META_BLOCKS_SZ + 2,
     MAX_FILE_COUNT, U16, U16 + META_BLOCKS_SZ + 1}

Prefixes == (0 .. MaxPrefix) \cup {BLOCK_SZ - 1}

ByteVals == {0, 127, 128, 191, 254, 255}

Fills == {0, 255}

Times == {0, BigTime}

RawImage(n, k, v, f) ==
    LET m == IF n < 3 THEN n ELSE 3 IN
    Sparse([o \in 0 .. m * BLOCK_SZ - 1 |->
               LET r  == o % BLOCK_SZ
                   kk == IF o \div BLOCK_SZ # INODE_BITMAP_BLOCK THEN k
                         ELSE IF k <= MaxPrefix THEN MaxPrefix - k ELSE k - WORD_BYTES
               IN  IF r < kk THEN 255 ELSE IF r = kk THEN v ELSE f])

NoCall == [op |-> "none", r |-> None]

Fresh ==
    /\ pc = "idle"
    /\ super_blk = NoSuperBlk
    /\ time = 0
    /\ ino = 0
    /\ bid = 0
    /\ ret = NoCall
    /\ made = <<>>
    /\ hist = <<>>

Init ==
    /\ \E n \in SizesInBlocks, k \in Prefixes, v \in ByteVals, f \in Fills :
          /\ n = META_BLOCKS_SZ + 2 \/ (k = 0 /\ v = f)
          /\ image_len = n * BLOCK_SZ
          /\ image = RawImage(n, k, v, f)
    /\ overflow_checks \in BOOLEAN
    /\ big_endian \in BOOLEAN
    /\ pre_image = image
    /\ Fresh

build == <<overflow_checks, big_endian>>
locals == <<super_blk, time, ino, bid>>

----
\* Ext2Fs::format, one action per statement.  pc = "ok" is the return of
\* Ok(()), "err1" and "err2" the return of Err(FormatError(1)) and
\* Err(FormatError(2)), "panic" a panic that unwinds the call.

\* block_count - META_BLOCKS_SZ - 1 in usize: below zero it panics in a build
\* with overflow checks and wraps in one without
SubOverflows(block_count) == block_count < META_BLOCKS_SZ + 1

\* let super_blk = SuperBlk { ... }: every field is cast with `as u16`
format_super_blk(block_count) ==
    [s_inodes_count      |-> 1,
     s_blocks_count      |-> block_count % U16,
     s_free_blocks_count |-> (block_count - META_BLOCKS_SZ - 1) % U16,
     s_free_inodes_count |-> (MAX_FILE_COUNT - 1) % U16,
     s_first_data_block  |-> META_BLOCKS_SZ % U16,
     s_block_size        |-> BLOCK_SZ % U16,
     s_last_allocate     |-> (META_BLOCKS_SZ + 1) % U16,
     s_magic             |-> EXT2_MAGIC]

\* lines 119-130
FormatStart ==
    /\ pc = "idle"
    /\ LET block_count == image_len \div BLOCK_SZ IN
          IF SubOverflows(block_count) /\ overflow_checks
          THEN pc' = "panic" /\ super_blk' = super_blk
          ELSE pc' = "write_super" /\ super_blk' = format_super_blk(block_count)
    /\ pre_image' = image
    /\ ret' = NoCall
    /\ hist' = <<>>
    /\ UNCHANGED <<image, image_len, build, time, ino, bid, made>>

\* a bwrite of format: the write, or the panic of the slice out of range
FormatWrite(buf, b, next) ==
    IF InRange(image_len, b)
    THEN image' = bwrite(image, buf, b) /\ pc' = next
    ELSE image' = image /\ pc' = "panic"

\* lines 131-136
WriteSuper ==
    /\ pc = "write_super"
    /\ FormatWrite(super_block(super_blk, big_endian), SUPER_BLOCK, "write_free_bitmap")
    /\ UNCHANGED <<image_len, build, locals, ret, pre_image, made, hist>>

\* lines 138-140
WriteFreeBitmap ==
    /\ pc = "write_free_bitmap"
    /\ FormatWrite(ZeroBuf, FREE_BITMAP_BLOCK, "write_inode_bitmap")
    /\ UNCHANGED <<image_len, build, locals, ret, pre_image, made, hist>>

\* lines 142-144
WriteInodeBitmap ==
    /\ pc = "write_inode_bitmap"
    /\ FormatWrite(ZeroBuf, INODE_BITMAP_BLOCK, "read_clock")
    /\ UNCHANGED <<image_len, build, locals, ret, pre_image, made, hist>>

\* what SystemTime::now().duration_since(UNIX_EPOCH) gives: Ok(seconds), or
\* Err when the system clock is before the epoch
ClockReadings == {Some(t) : t \in Times} \cup {None}

\* lines 147-150: .unwrap() panics on Err, .as_secs() is the time
ReadClock ==
    /\ pc = "read_clock"
    /\ \E now \in ClockReadings :
          IF now.kind = "Some"
          THEN time' = now.val /\ pc' = "ialloc"
          ELSE time' = time /\ pc' = "panic"
    /\ UNCHANGED <<image, image_len, build, super_blk, ino, bid, ret, pre_image, made, hist>>

\* line 152: let ino = self.ialloc().ok_or(FormatError(1))?
FormatIalloc ==
    /\ pc = "ialloc"
    /\ LET r == ialloc(image, image_len, big_endian) IN
          /\ pc' = IF r.kind = "Some" THEN "balloc"
                   ELSE IF r.kind = "None" THEN "err1" ELSE "panic"
          /\ ino' = IF r.kind = "Some" THEN r.val ELSE ino
    /\ image' = first_match_image(image, image_len, INODE_BITMAP_BLOCK, big_endian)
    /\ UNCHANGED <<image_len, build, super_blk, time, bid, ret, pre_image, made, hist>>

\* line 154: let bid = self.balloc().ok_or(FormatError(2))?
FormatBalloc ==
    /\ pc = "balloc"
    /\ LET r == balloc(image, image_len, big_endian) IN
          /\ pc' = IF r.kind = "Some" THEN "write_root"
                   ELSE IF r.kind = "None" THEN "err2" ELSE "panic"
          /\ bid' = IF r.kind = "Some" THEN r.val ELSE bid
    /\ image' = first_match_image(image, image_len, FREE_BITMAP_BLOCK, big_endian)
    /\ UNCHANGED <<image_len, build, super_blk, time, ino, ret, pre_image, made, hist>>

\* the root inode's buffer written to the inode's block of the inode table
root_block_in_table(i, b) == INODE_TABLE_BLOCKS + (i * SIZE_OF_INODE) \div BLOCK_SZ

\* line 159: the block the root inode's buffer is written to, bid.into()
root_block(i, b) == b

\* lines 155-160
WriteRoot ==
    /\ pc = "write_root"
    /\ IF (ino + 1) * SIZE_OF_INODE > BLOCK_SZ
       THEN image' = image /\ pc' = "panic"
       ELSE FormatWrite(inode_block(new_dir(time, 0, bid), ino, big_endian),
                        root_block(ino, bid), "ok")
    /\ UNCHANGED <<image_len, build, locals, ret, pre_image, made, hist>>

----
\* Calls of the allocators outside format, on an image that is not being
\* formatted.  ret keeps the call and what it returned.

Ialloc ==
    /\ pc \in {"idle", "ok"}
    /\ Len(hist) < MaxCalls
    /\ ret' = [op |-> "ialloc", r |-> ialloc(image, image_len, big_endian)]
    /\ hist' = Append(hist, ret')
    /\ image' = first_match_image(image, image_len, INODE_BITMAP_BLOCK, big_endian)
    /\ pre_image' = image
    /\ UNCHANGED <<image_len, build, pc, locals, made>>

Balloc ==
    /\ pc \in {"idle", "ok"}
    /\ Len(hist) < MaxCalls
    /\ ret' = [op |-> "balloc", r |-> balloc(image, image_len, big_endian)]
    /\ hist' = Append(hist, ret')
    /\ image' = first_match_image(image, image_len, FREE_BITMAP_BLOCK, big_endian)
    /\ pre_image' = image
    /\ UNCHANGED <<image_len, build, pc, locals, made>>

Next ==
    \/ FormatStart
    \/ WriteSuper
    \/ WriteFreeBitmap
    \/ WriteInodeBitmap
    \/ ReadClock
    \/ FormatIalloc
    \/ FormatBalloc
    \/ WriteRoot
    \/ Ialloc
    \/ Balloc

Spec == Init /\ [][Next]_vars

----
\* Inode::new_dir on its own: a second specification, whose only action is a
\* call of the constructor with arguments drawn from 0 .. MaxArg.

InitInode ==
    /\ image = ZeroBuf
    /\ image_len = 0
    /\ overflow_checks = FALSE
    /\ big_endian = FALSE
    /\ pre_image = image
    /\ Fresh

NewDir ==
    /\ \E t \in 0 .. MaxArg, flags \in 0 .. MaxArg, first_block \in 0 .. MaxArg :
          LET call == [time |-> t, flags |-> flags, first_block |-> first_block,
                       inode |-> new_dir(t, flags, first_block)]
          IN  made' = IF Len(made) < 2 THEN Append(made, call) ELSE <<made[2], call>>
    /\ UNCHANGED <<image, image_len, build, pc, locals, ret, pre_image, hist>>

NextInode == NewDir

SpecInode == InitInode /\ [][NextInode]_vars

----
\* The bitmap of a block as the claims read it: bit i is in word i \div 64, at
\* position i % 64 counted from the most significant bit of the word.

BITS_PER_BLOCK == BLOCK_SZ * 8

\* byte q of block b in bit order: bits 8q .. 8q+7 of the bitmap
BitOrderByte(img, b, q, be) ==
    ByteAt(img, b * BLOCK_SZ + SigOff(q \div WORD_BYTES, q % WORD_BYTES, be))

ImgBit(img, b, i, be) == BitOf(BitOrderByte(img, b, i \div 8, be), i % 8)

HasZeroBit(img, b, be) ==
    \E q \in 0 .. BLOCK_SZ - 1 : BitOrderByte(img, b, q, be) # 255

AllOnes(img, b) ==
    \A o \in one_block_from(b) : ByteAt(img, o) = 255

LowestZeroBit(img, b, be) ==
    LET q == Min({x \in 0 .. BLOCK_SZ - 1 : BitOrderByte(img, b, x, be) # 255})
    IN  q * 8 + Min({p \in 0 .. 7 : BitOf(BitOrderByte(img, b, q, be), p) = 0})

\* the bitmap block an allocator scans
BitmapOf(op) == IF op = "ialloc" THEN INODE_BITMAP_BLOCK ELSE FREE_BITMAP_BLOCK

\* an allocator was called outside format on an image that holds its bitmap
Called == ret.op # "none" /\ InRange(image_len, BitmapOf(ret.op))

\* format has returned or panicked, and no allocator was called since
FormatOver == pc \in {"ok", "err1", "err2", "panic"} /\ ret.op = "none"

FormatOk == pc = "ok" /\ ret.op = "none"

----
\* C1: on a bitmap with a zero bit the allocator returns the lowest zero bit
\* index (word_index*64 + position from the most significant bit), which is in
\* 0..8191 and names a bit that was 0 before the call.
\* The code returns leading_ones() of the word after the bit is set: TLC finds
\* this violated.
C1_ReturnsLowestZeroBit ==
    (Called /\ HasZeroBit(pre_image, BitmapOf(ret.op), big_endian)) =>
        /\ ret.r.kind = "Some"
        /\ ret.r.val = LowestZeroBit(pre_image, BitmapOf(ret.op), big_endian)
        /\ ret.r.val \in 0 .. BITS_PER_BLOCK - 1
        /\ ImgBit(pre_image, BitmapOf(ret.op), ret.r.val, big_endian) = 0

\* C2: after a successful allocator call the stored bitmap differs from the one
\* before the call in exactly the bit of the returned index, which went from 0
\* to 1.  The code sets the bit in a copy and never writes it: TLC finds this
\* violated.
C2_OneBitWrittenBack ==
    (Called /\ ret.r.kind = "Some") =>
        /\ ret.r.val \in 0 .. BITS_PER_BLOCK - 1
        /\ ImgBit(pre_image, BitmapOf(ret.op), ret.r.val, big_endian) = 0
        /\ \A i \in 0 .. BITS_PER_BLOCK - 1 :
              ImgBit(image, BitmapOf(ret.op), i, big_endian) =
                  IF i = ret.r.val THEN 1
                  ELSE ImgBit(pre_image, BitmapOf(ret.op), i, big_endian)

\* C3: on a bitmap block whose every bit is 1 the allocator returns None and
\* the image after the call is the image before it.
C3_ExhaustedNoWrite ==
    (Called /\ AllOnes(pre_image, BitmapOf(ret.op))) =>
        /\ ret.r = None
        /\ image = pre_image

C3_Witness ==
    /\ Called
    /\ ret.op = "ialloc"
    /\ AllOnes(pre_image, INODE_BITMAP_BLOCK)
    /\ ret.r.kind = "None"

----
\* C4: format of an image of 1024 blocks returns Ok with root inode number 0
\* and root data block 63, and the root inode record it wrote has mode =
\* 0x4000, block_count = 1 and block-pointer slot 0 = 63.
\* The code allocates inode 1 and block 1: TLC finds this violated.
C4_Format1024Blocks ==
    (FormatOk /\ image_len = 1024 * 1024) =>
        LET rec == bid * BLOCK_SZ + ino * SIZE_OF_INODE IN
        /\ ino = 0
        /\ bid = 63
        /\ ReadU16(image, rec + OFF_MODE, big_endian) = 16384
        /\ ReadU16(image, rec + OFF_BLOCKS, big_endian) = 1
        /\ ReadU16(image, rec + OFF_BLOCK, big_endian) = 63

\* the u16 field `name` of the superblock record stored in block 0
Stored(name) == ReadU16(image, SUPER_BLOCK * BLOCK_SZ + SuperOff(name), big_endian)

\* C5: after a successful format block 0 holds the superblock record at offset
\* 0 with free_block_count = block_count - 64, free_inode_count = 1023,
\* first_data_block = 63, block_size = 1024, magic = 0xEF53 and zero bytes
\* after the record, and no step after the superblock write changes block 0.
\* The stored free_block_count is cut to 16 bits and wraps below 64 blocks
\* (C9, C6): TLC finds this violated.
C5_SuperblockInBlock0 ==
    /\ FormatOk =>
          /\ Stored("s_free_blocks_count") = (image_len \div BLOCK_SZ) - 64
          /\ Stored("s_free_inodes_count") = MAX_FILE_COUNT - 1
          /\ Stored("s_free_inodes_count") = 1023
          /\ Stored("s_first_data_block") = 63
          /\ Stored("s_block_size") = 1024
          /\ Stored("s_magic") = EXT2_MAGIC
          /\ \A o \in SIZE_OF_SUPERBLK .. BLOCK_SZ - 1 : ByteAt(image, o) = 0
    /\ pc \in {"write_free_bitmap", "write_inode_bitmap", "read_clock", "ialloc",
               "balloc", "write_root", "ok"} =>
          bread(image, SUPER_BLOCK) = super_block(super_blk, big_endian)

\* C6: format of an image of 64 blocks or fewer ends with a FormatError and
\* leaves the image as it was.  The code has no such check; on 64 blocks it
\* writes and returns Ok: TLC finds this violated.
C6_SmallImageRejected ==
    (FormatOver /\ image_len \div BLOCK_SZ <= 64) =>
        /\ pc \in {"err1", "err2"}
        /\ image = pre_image

----
\* C7 (specification SpecInode): every record Inode::new_dir returns has mode =
\* 0x4000, size 0, the three timestamps = time, link_count = 1, block_count =
\* 1, flags = flags, pointer slot 0 = first_block and the other ten slots 0;
\* two calls with the same time and flags return records, and bytes in memory,
\* that differ in pointer slot 0 at most, and the same record when the block
\* ids are the same too.
C7_NewDirRecord ==
    /\ \A i \in DOMAIN made :
          LET c == made[i]
              n == c.inode
          IN  /\ n.i_mode = 16384
              /\ n.i_size = 0
              /\ n.i_atime = c.time /\ n.i_ctime = c.time /\ n.i_mtime = c.time
              /\ n.i_links_count = 1
              /\ n.i_blocks = 1
              /\ n.i_flags = c.flags
              /\ DOMAIN n.i_block = 0 .. 10
              /\ n.i_block[0] = c.first_block
              /\ \A k \in 1 .. 10 : n.i_block[k] = 0
    /\ \A i, j \in DOMAIN made :
          (made[i].time = made[j].time /\ made[i].flags = made[j].flags) =>
              LET a == made[i].inode
                  b == made[j].inode
              IN  /\ [a EXCEPT !.i_block[0] = 0] = [b EXCEPT !.i_block[0] = 0]
                  /\ \A be \in BOOLEAN :
                        \A o \in (0 .. SIZE_OF_INODE - 1) \ {OFF_BLOCK, OFF_BLOCK + 1} :
                            InodeByte(a, o, be) = InodeByte(b, o, be)
                  /\ made[i].first_block = made[j].first_block => a = b

C7_Witness ==
    /\ Len(made) = 2
    /\ made[1].time = made[2].time
    /\ made[1].time > 0
    /\ made[1].flags = made[2].flags
    /\ made[1].first_block # made[2].first_block
    /\ made[1].inode # made[2].inode

----
\* C9: after a successful format the stored block_count equals image_size /
\* 1024 and the stored free_block_count equals block_count - 64, which is not
\* negative.  Both fields are cast to u16 and the subtraction wraps in a build
\* without overflow checks: TLC finds this violated.
C9_CountsNotTruncated ==
    FormatOk =>
        /\ image_len % BLOCK_SZ = 0
        /\ Stored("s_blocks_count") = image_len \div BLOCK_SZ
        /\ (image_len \div BLOCK_SZ) - 64 >= 0
        /\ Stored("s_free_blocks_count") = (image_len \div BLOCK_SZ) - 64

\* C10: the last step of a successful format writes, to the block whose id the
\* block allocation returned, a buffer that is zero except for the root inode
\* record at the bytes ino*64 .. (ino+1)*64 - 1, ino being the number the inode
\* allocation returned; after it that block of the image holds this buffer
\* (and the step writes no other block).
C10_RootBufferWritten ==
    [][(pc = "write_root" /\ pc' = "ok") =>
          /\ \A o \in 0 .. BLOCK_SZ - 1 :
                ByteAt(image', bid * BLOCK_SZ + o) =
                    IF o \in (ino * 64) .. ((ino + 1) * 64 - 1)
                    THEN InodeByte(new_dir(time, 0, bid), o - ino * 64, big_endian)
                    ELSE 0
          /\ \A o \in ((DOMAIN image) \cup (DOMAIN image')) \ one_block_from(bid) :
                ByteAt(image', o) = ByteAt(image, o)]_vars

C10_Witness ==
    /\ FormatOk
    /\ time = BigTime
    /\ image_len = MAX_FILE_COUNT * BLOCK_SZ
    /\ ReadU16(image, bid * BLOCK_SZ + ino * SIZE_OF_INODE + OFF_MODE, big_endian) = IFDIR

----
\* a step of ialloc or balloc, in format or outside it, and the bitmap block
\* the call scans
AllocStep ==
    \/ pc \in {"ialloc", "balloc"}
    \/ pc \in {"idle", "ok"} /\ pc' = pc /\ hist' # hist

AllocStepBlock ==
    IF pc = "ialloc" THEN INODE_BITMAP_BLOCK
    ELSE IF pc = "balloc" THEN FREE_BITMAP_BLOCK
    ELSE BitmapOf(ret'.op)

\* C11: a call of ialloc or balloc leaves block 0, the superblock with its free
\* counters, as it was, and leaves every block other than the bitmap block it
\* scans as it was (ialloc: block 2, balloc: block 1).
C11_AllocFrame ==
    [][AllocStep =>
          /\ bread(image', SUPER_BLOCK) = bread(image, SUPER_BLOCK)
          /\ \A o \in ((DOMAIN image) \cup (DOMAIN image')) \ one_block_from(AllocStepBlock) :
                ByteAt(image', o) = ByteAt(image, o)]_vars

C11_Witness ==
    /\ pc = "ok"
    /\ ret.op = "ialloc"
    /\ ret.r.kind = "Some"
    /\ Stored("s_magic") = EXT2_MAGIC
    /\ Stored("s_free_inodes_count") = MAX_FILE_COUNT - 1

----
\* Calls in hist: i before j, on the same bitmap, both returning Some

SameBitmapSome(i, j) ==
    /\ i \in DOMAIN hist /\ j \in DOMAIN hist /\ i < j
    /\ hist[i].op = hist[j].op
    /\ hist[i].r.kind = "Some" /\ hist[j].r.kind = "Some"

\* C13: two allocator calls on the same bitmap block that run one after the
\* other, with no other writer between them, do not return the same index
\* (only calls interleaved between their read and their write could).
\* The code never writes the bit back (C2), so the second call returns the
\* index of the first: TLC finds this violated.
C13_SequentialCallsDiffer ==
    \A i \in DOMAIN hist :
        SameBitmapSome(i, i + 1) => hist[i].r.val # hist[i + 1].r.val

\* C14: in a run of allocator calls on one bitmap with no other writer, the
\* indices returned are strictly increasing, so pairwise distinct, and after a
\* format (zeroed bitmaps) none of the first 8192 calls reports exhaustion.
\* The code returns the same index every time (C2): TLC finds this violated.
C14_IndicesIncrease ==
    /\ \A i, j \in DOMAIN hist :
          SameBitmapSome(i, j) => hist[i].r.val < hist[j].r.val
    /\ (pc = "ok" /\ Len(hist) < BITS_PER_BLOCK) =>
          \A i \in DOMAIN hist : hist[i].r.kind = "Some"

\* the buffer format writes for the root inode
RootBuffer == inode_block(new_dir(time, 0, bid), ino, big_endian)

\* C15: every block id balloc returns, in format and after it, is in the data
\* region: >= 63 and < block_count; so after a successful format no reserved
\* block 0..62 holds the root inode's buffer and blocks 3..62 are as they were.
\* The code's balloc returns 1 and format writes the root inode's buffer over
\* block 1, the free-block bitmap: TLC finds this violated.
C15_BallocInDataRegion ==
    /\ pc \in {"write_root", "ok"} =>
          bid >= 63 /\ bid < image_len \div BLOCK_SZ
    /\ pc = "ok" =>
          \A i \in DOMAIN hist :
              (hist[i].op = "balloc" /\ hist[i].r.kind = "Some") =>
                  hist[i].r.val >= 63 /\ hist[i].r.val < image_len \div BLOCK_SZ
    /\ FormatOk =>
          /\ \A b \in 0 .. META_BLOCKS_SZ - 1 : bread(image, b) # RootBuffer
          /\ \A b \in INODE_TABLE_BLOCKS .. META_BLOCKS_SZ - 1 :
                bread(image, b) = bread(pre_image, b)

\* C16: after a successful format the inode bitmap (block 2) has exactly one
\* bit set, the bit of the root inode number, the free-block bitmap (block 1)
\* has the bit of the root block set, and no later ialloc returns the root
\* inode number and no later balloc the root block id.
\* The code leaves both bitmaps as format zeroed them (C2) and the next calls
\* return 1 again: TLC finds this violated.
C16_BitmapsAgreeWithFormat ==
    pc = "ok" =>
        /\ {i \in 0 .. BITS_PER_BLOCK - 1 :
               ImgBit(image, INODE_BITMAP_BLOCK, i, big_endian) = 1} = {ino}
        /\ bid < BITS_PER_BLOCK
        /\ ImgBit(image, FREE_BITMAP_BLOCK, bid, big_endian) = 1
        /\ \A i \in DOMAIN hist :
              hist[i].r.kind = "Some" =>
                  hist[i].r.val # (IF hist[i].op = "ialloc" THEN ino ELSE bid)

----
\* the images that hold blocks 0, 1, 2 and the first data block 63 of the
\* layout: 64 blocks or more
HoldsLayout == image_len \div BLOCK_SZ >= META_BLOCKS_SZ + 1

====
